---- MODULE Spec2Model ----
(***************************************************************************)
(* Vacancy scraper bot (src/main.py): the processed-id table, the scan     *)
(* loop check_new_vacancies and its two triggers (the repeating job        *)
(* scheduled_scrape and the /scrape command handler scrape_command).       *)
(*                                                                         *)
(* The bot runs on one asyncio event loop.  A coroutine keeps the loop     *)
(* from its resumption up to its next await, so control changes hands only *)
(* at the awaits of check_new_vacancies: the formatter call (line 239) and *)
(* send_message (line 264).  parse_vacancy_page and the sqlite calls are   *)
(* synchronous and never yield.                                            *)
(***************************************************************************)
EXTENDS Integers, Sequences, FiniteSets, TLC

(***************************************************************************)
(* Bounds of the model.                                                    *)
(***************************************************************************)
\* Number of ids above the fallback id for which the site may serve a page.
NumIds == 2
\* Number of scan invocations (timer firings plus /scrape commands).
MaxScans == 2
\* Number of sqlite calls that fail.
MaxFaults == 1
\* Number of job titles on the first line of a text given to choose_topic.
TitlesPerLine == 2
\* Number of ids save_processed_id is called with when it is taken alone.
NumSaved == 3

(***************************************************************************)
(* Program constants.                                                      *)
(***************************************************************************)
\* get_last_processed_id: the value returned for an empty table.
FallbackId == 308420
\* check_new_vacancies: max_missing.
max_missing == 10

\* Ids for which parse_vacancy_page may return text; above them every fetch
\* returns None.
PageIds == (FallbackId + 1)..(FallbackId + NumIds)

\* The two sources of scan invocations registered by main().
Tasks == {"timer", "manual"}

(***************************************************************************)
(* Text.  A string is a sequence of one-character strings.                 *)
(***************************************************************************)
NL == "\n"

Whitespace == {" ", NL, "\t", "\r"}

UpperCase == <<"A","B","C","D","E","F","G","H","I","J","K","L","M",
               "N","O","P","Q","R","S","T","U","V","W","X","Y","Z">>

LowerCase == <<"a","b","c","d","e","f","g","h","i","j","k","l","m",
               "n","o","p","q","r","s","t","u","v","w","x","y","z">>

\* str.lower() on one character.
LowerChar(c) ==
    IF \E i \in 1..Len(UpperCase) : UpperCase[i] = c
    THEN LowerCase[CHOOSE i \in 1..Len(UpperCase) : UpperCase[i] = c]
    ELSE c

\* str.lower()
Lower(s) == [i \in 1..Len(s) |-> LowerChar(s[i])]

\* str.strip(): drop the whitespace at both ends.
Strip(s) ==
    LET keep == {i \in 1..Len(s) : s[i] \notin Whitespace}
    IN  IF keep = {} THEN <<>>
        ELSE LET lo == CHOOSE i \in keep : \A j \in keep : i <= j
                 hi == CHOOSE i \in keep : \A j \in keep : j <= i
             IN  SubSeq(s, lo, hi)

\* s.split("\n", 1)[0]: the text before the first newline.
FirstLine(s) ==
    LET nls == {i \in 1..Len(s) : s[i] = NL}
    IN  IF nls = {} THEN s
        ELSE SubSeq(s, 1, (CHOOSE i \in nls : \A j \in nls : i <= j) - 1)

\* keyword in line
Contains(line, kw) ==
    \E i \in 0..(Len(line) - Len(kw)) : SubSeq(line, i + 1, i + Len(kw)) = kw

\* TOPIC_ID_MAPPING, in the order of the dict literal (the iteration order
\* of a Python dict is its insertion order).
TOPIC_ID_MAPPING ==
    << << <<"c","h","i","e","f"," ","o","f","f","i","c","e","r">>, 36 >>,
       << <<"m","a","s","t","e","r">>, 2 >>,
       << <<"2","n","d"," ","o","f","f","i","c","e","r">>, 44 >>,
       << <<"3","r","d"," ","o","f","f","i","c","e","r">>, 50 >>,
       << <<"c","h","i","e","f"," ","e","n","g","i","n","e","e","r">>, 54 >>,
       << <<"2","n","d"," ","e","n","g","i","n","e","e","r">>, 58 >>,
       << <<"3","r","d"," ","e","n","g","i","n","e","e","r">>, 62 >>,
       << <<"4","t","h"," ","e","n","g","i","n","e","e","r">>, 66 >>,
       << <<"e","l","e","c","t","r","i","c","a","l"," ","e","n","g","i","n","e","e","r">>, 70 >>,
       << <<"b","o","s","u","n">>, 74 >>,
       << <<"a","b","l","e"," ","s","e","a","m","a","n">>, 78 >>,
       << <<"o","r","d","i","n","a","r","y"," ","s","e","a","m","a","n">>, 82 >>,
       << <<"f","i","t","t","e","r">>, 86 >>,
       << <<"m","o","t","o","r","m","a","n">>, 90 >>,
       << <<"w","i","p","e","r">>, 94 >>,
       << <<"c","o","o","k">>, 98 >>,
       << <<"s","t","e","w","a","r","d">>, 102 >> >>

\* choose_topic returning the topic of the last keyword of the mapping that
\* the line contains (a loop that does not return at its first match).
choose_topic_last(formatted_text) ==
    LET lower_line == Lower(Strip(FirstLine(Strip(formatted_text))))
        hits == {k \in 1..Len(TOPIC_ID_MAPPING) :
                    Contains(lower_line, TOPIC_ID_MAPPING[k][1])}
    IN  IF hits = {} THEN 0
        ELSE TOPIC_ID_MAPPING[CHOOSE k \in hits : \A j \in hits : j <= k][2]

\* choose_topic: the topic of the first keyword contained in the lower-cased
\* first line, 0 when there is none.
choose_topic(formatted_text) ==
    LET lower_line == Lower(Strip(FirstLine(Strip(formatted_text))))
        hits == {k \in 1..Len(TOPIC_ID_MAPPING) :
                    Contains(lower_line, TOPIC_ID_MAPPING[k][1])}
    IN  IF hits = {} THEN 0
        ELSE TOPIC_ID_MAPPING[CHOOSE k \in hits : \A j \in hits : k <= j][2]


\* The values of TOPIC_ID_MAPPING.
TopicIds == {TOPIC_ID_MAPPING[k][2] : k \in 1..Len(TOPIC_ID_MAPPING)}

\* Message contents the formatting API may answer with (status 200).
Contents ==
    { <<>>,
      <<" ", NL>>,
      <<"M","a","s","t","e","r"," ","o","n"," ","T","a","n","k","e","r",NL,"x">>,
      <<"C","h","i","e","f"," ","O","f","f","i","c","e","r"," ","o","n"," ",
        "B","u","l","k"," ","C","a","r","r","i","e","r">>,
      <<"D","e","c","k","h","a","n","d"," ","o","n"," ","Y","a","c","h","t">>,
      <<"N","e","w",NL,"C","o","o","k">> }

\* The text of the precedence example: a title followed by a vessel type.
ChiefOfficerOnBulkCarrier ==
    <<"C","h","i","e","f"," ","O","f","f","i","c","e","r"," ","o","n"," ",
      "B","u","l","k"," ","C","a","r","r","i","e","r">>

\* One upper-case letter for its lower-case letter.
UpperChar(c) ==
    IF \E i \in 1..Len(LowerCase) : LowerCase[i] = c
    THEN UpperCase[CHOOSE i \in 1..Len(LowerCase) : LowerCase[i] = c]
    ELSE c

\* A job title as the prompt of the formatter spells it: every word starts
\* with a capital ("Chief Officer").
TitleCase(s) ==
    [i \in 1..Len(s) |->
        IF i = 1 \/ s[(IF i = 1 THEN 1 ELSE i - 1)] = " "
        THEN UpperChar(s[i]) ELSE s[i]]

\* Job titles a first line is made of: five keywords of the mapping and one
\* title that is not in it.
Titles ==
    { TOPIC_ID_MAPPING[1][1], TOPIC_ID_MAPPING[2][1], TOPIC_ID_MAPPING[5][1],
      TOPIC_ID_MAPPING[16][1], TOPIC_ID_MAPPING[17][1],
      <<"d","e","c","k","h","a","n","d">> }

\* First lines of n job titles.
RECURSIVE TitleLines(_)
TitleLines(n) ==
    IF n = 0 THEN {<<>>}
    ELSE {TitleCase(w) \o <<" ">> \o l : w \in Titles, l \in TitleLines(n - 1)}

\* Texts choose_topic is applied to: each first line as it is, in capitals
\* after white space and an empty line, and followed by a second line that
\* holds a keyword; the precedence example alone and with a second line; the
\* empty text.
ClassifyTexts ==
    LET second == <<NL>> \o TitleCase(TOPIC_ID_MAPPING[2][1])
    IN  UNION { { l,
                  <<" ", NL>> \o [i \in 1..Len(l) |-> UpperChar(l[i])],
                  l \o second } : l \in TitleLines(TitlesPerLine) }
        \cup { ChiefOfficerOnBulkCarrier, ChiefOfficerOnBulkCarrier \o second,
               <<>> }

(***************************************************************************)
(* The processed_vacancies table.  Its only column the program reads is    *)
(* vacancy_id (NOT NULL UNIQUE), so the table is the set of its values.    *)
(***************************************************************************)
SetMax(S) == CHOOSE x \in S : \A y \in S : y <= x

SetMin(S) == CHOOSE x \in S : \A y \in S : x <= y

\* get_last_processed_id with MIN in place of MAX.
get_last_processed_id_min(table) ==
    IF table = {} THEN FallbackId ELSE SetMin(table)

\* get_last_processed_id: SELECT MAX(vacancy_id), 308420 for an empty table.
get_last_processed_id(table) ==
    IF table = {} THEN FallbackId ELSE SetMax(table)

\* INSERT without OR IGNORE: a vacancy_id already in the table violates the
\* UNIQUE constraint and the statement fails.
insert_plain(table, vacancy_id) ==
    IF vacancy_id \in table THEN "caught" ELSE "ok"

\* INSERT OR IGNORE (line 86) on the UNIQUE column of create_table: a
\* vacancy_id already in the table is skipped and the statement succeeds.
insert_or_ignore(table, vacancy_id) == "ok"

\* save_processed_id keeping one row only (the id as a cursor).
save_processed_id_replace(table, vacancy_id, outcome) ==
    IF outcome = "ok" THEN {vacancy_id} ELSE table

\* save_processed_id: INSERT OR IGNORE, committed unless the statement failed.
save_processed_id(table, vacancy_id, outcome) ==
    IF outcome = "ok" THEN table \cup {vacancy_id} ELSE table

(***************************************************************************)
(* State.                                                                  *)
(***************************************************************************)
VARIABLES
    store,          \* the vacancy_id values of processed_vacancies
    pc,             \* per task: where its check_new_vacancies stands
    current_id,     \* per task: local current_id
    missing_count,  \* per task: local missing_count
    new_count,      \* per task: local new_count
    formatted,      \* per task: formatted_vacancy while send_message is pending
    topic_id,       \* per task: topic_id while send_message is pending
    scans,          \* number of scan invocations so far
    faults,         \* number of sqlite calls that have failed so far
    \* What has been observed of the collaborators:
    start_id,       \* per task: the first id of its current scan
    store0,         \* per task: the table when its current scan started
    absent,         \* per task: ids its current scan fetched as None
    fmt_ids,        \* per task: ids its current scan passed to the formatter
    sent_ids,       \* per task: ids its current scan passed to send_message
    lastAbsent,     \* ids the scan that ended last fetched as None
    delivered       \* per id: number of send_message calls that returned

vars == <<store, pc, current_id, missing_count, new_count, formatted, topic_id,
          scans, faults, start_id, store0, absent, fmt_ids, sent_ids, lastAbsent,
          delivered>>

locals == <<current_id, missing_count, new_count, formatted, topic_id>>

observed == <<start_id, store0, absent, fmt_ids, sent_ids>>

\* The ways a sqlite call may fail.  "raised": the exception leaves the
\* function (everything in get_last_processed_id; in save_processed_id,
\* get_db_connection and cursor(), lines 83-84, before the try).  "caught":
\* execute or commit raises inside the try of save_processed_id (lines
\* 86-87) and the handler of line 89 logs it.
AllFaults == {"caught", "raised"}
InsertFaults == {"caught"}
NoFaults == {}

\* Outcomes of get_last_processed_id, given the kinds of failure considered.
ReadOutcomes(kinds) ==
    {"ok"} \cup (IF faults < MaxFaults THEN kinds \cap {"raised"} ELSE {})

\* Outcomes of save_processed_id, given the kinds of failure considered.
SaveOutcomes(kinds) ==
    {"ok"} \cup (IF faults < MaxFaults THEN kinds ELSE {})

\* A task at one of these places does not hold the event loop: it is not
\* running, or it waits at an await.
Parked == {"idle", "await_format", "await_send", "await_reply"}

\* The event loop runs one coroutine at a time, from one await to the next.
CanRun(t) == \A u \in Tasks \ {t} : pc[u] \in Parked

\* No check_new_vacancies has started and not yet ended.
NoScanInFlight == \A u \in Tasks : pc[u] \in {"idle", "await_reply"}

Init ==
    /\ store = {}
    /\ pc = [t \in Tasks |-> "idle"]
    /\ current_id = [t \in Tasks |-> 0]
    /\ missing_count = [t \in Tasks |-> 0]
    /\ new_count = [t \in Tasks |-> 0]
    /\ formatted = [t \in Tasks |-> <<>>]
    /\ topic_id = [t \in Tasks |-> 0]
    /\ scans = 0
    /\ faults = 0
    /\ start_id = [t \in Tasks |-> 0]
    /\ store0 = [t \in Tasks |-> {}]
    /\ absent = [t \in Tasks |-> {}]
    /\ fmt_ids = [t \in Tasks |-> {}]
    /\ sent_ids = [t \in Tasks |-> {}]
    /\ lastAbsent = {}
    /\ delivered = [i \in PageIds |-> 0]

(***************************************************************************)
(* check_new_vacancies, one action per stretch between two awaits (or two  *)
(* loop iterations).  `kinds` are the failures of sqlite considered.      *)
(* The locals formatted_vacancy and topic_id are kept only while they can  *)
(* still be read (until send_message has returned); the locals of a call   *)
(* that has returned or raised are gone.                                   *)
(***************************************************************************)

\* scheduled_scrape / scrape_command call check_new_vacancies, which runs up
\* to its loop: lines 219-223.  A task is started again only after its own
\* previous run has ended (the job queue runs one instance of a job at a
\* time, the application handles one update at a time); the other task may
\* be waiting at an await.
StartScan(t, kinds) ==
    /\ pc[t] = "idle"
    /\ CanRun(t)
    /\ scans < MaxScans
    /\ scans' = scans + 1
    /\ \E o \in ReadOutcomes(kinds) :
        LET first == IF o = "ok" THEN get_last_processed_id(store) + 1 ELSE 0
        IN  /\ pc' = [pc EXCEPT ![t] = IF o = "ok" THEN "loop" ELSE "raised"]
            /\ current_id' = [current_id EXCEPT ![t] = first]
            /\ start_id' = [start_id EXCEPT ![t] = first]
            /\ lastAbsent' = IF o = "ok" THEN lastAbsent ELSE {}
            /\ faults' = IF o = "ok" THEN faults ELSE faults + 1
    /\ store0' = [store0 EXCEPT ![t] = store]
    /\ UNCHANGED <<store, missing_count, new_count, formatted, topic_id,
                   absent, fmt_ids, sent_ids, delivered>>

\* The same, when the triggers never overlap: the scan starts only when no
\* other scan is in flight.
StartScanAlone(t, kinds) ==
    /\ NoScanInFlight
    /\ StartScan(t, kinds)

\* ExitLoop with the loop condition missing_count < max_missing - 1.
ExitLoop_early(t) ==
    /\ pc[t] = "loop"
    /\ CanRun(t)
    /\ ~(missing_count[t] < max_missing - 1)
    /\ pc' = [pc EXCEPT ![t] = "done"]
    /\ lastAbsent' = absent[t]
    /\ UNCHANGED <<store, locals, scans, faults, observed, delivered>>

\* Line 225 with missing_count = max_missing: the loop ends, lines 279-280.
ExitLoop(t) ==
    /\ pc[t] = "loop"
    /\ CanRun(t)
    /\ ~(missing_count[t] < max_missing)
    /\ pc' = [pc EXCEPT ![t] = "done"]
    /\ lastAbsent' = absent[t]
    /\ UNCHANGED <<store, locals, scans, faults, observed, delivered>>

\* FetchMissing saving the missing id as well.
FetchMissing_saves(t) ==
    /\ pc[t] = "loop"
    /\ CanRun(t)
    /\ missing_count[t] < max_missing
    /\ current_id' = [current_id EXCEPT ![t] = @ + 1]
    /\ missing_count' = [missing_count EXCEPT ![t] = @ + 1]
    /\ absent' = [absent EXCEPT ![t] = @ \cup {current_id[t]}]
    /\ store' = store \cup {current_id[t]}
    /\ UNCHANGED <<pc, new_count, formatted, topic_id, scans, faults, start_id,
                   store0, fmt_ids, sent_ids, lastAbsent, delivered>>

\* Lines 225-234: parse_vacancy_page returns None (request error, status
\* other than 200, or a page without the expected block).
FetchMissing(t) ==
    /\ pc[t] = "loop"
    /\ CanRun(t)
    /\ missing_count[t] < max_missing
    /\ current_id' = [current_id EXCEPT ![t] = @ + 1]
    /\ missing_count' = [missing_count EXCEPT ![t] = @ + 1]
    /\ absent' = [absent EXCEPT ![t] = @ \cup {current_id[t]}]
    /\ UNCHANGED <<store, pc, new_count, formatted, topic_id, scans, faults, start_id,
                   store0, fmt_ids, sent_ids, lastAbsent, delivered>>

\* FetchFound without missing_count = 0 (line 236).
FetchFound_noreset(t) ==
    /\ pc[t] = "loop"
    /\ CanRun(t)
    /\ missing_count[t] < max_missing
    /\ current_id[t] \in PageIds
    /\ fmt_ids' = [fmt_ids EXCEPT ![t] = @ \cup {current_id[t]}]
    /\ pc' = [pc EXCEPT ![t] = "await_format"]
    /\ UNCHANGED <<store, current_id, missing_count, new_count, formatted,
                   topic_id, scans, faults, start_id, store0, absent, sent_ids,
                   lastAbsent, delivered>>

\* Lines 225-239: parse_vacancy_page returns text; the formatter is called
\* and awaited.
FetchFound(t) ==
    /\ pc[t] = "loop"
    /\ CanRun(t)
    /\ missing_count[t] < max_missing
    /\ current_id[t] \in PageIds
    /\ missing_count' = [missing_count EXCEPT ![t] = 0]
    /\ fmt_ids' = [fmt_ids EXCEPT ![t] = @ \cup {current_id[t]}]
    /\ pc' = [pc EXCEPT ![t] = "await_format"]
    /\ UNCHANGED <<store, current_id, new_count, formatted, topic_id, scans,
                   faults, start_id, store0, absent, sent_ids, lastAbsent,
                   delivered>>

\* save_processed_id(current_id); current_id += 1; continue -- or the
\* exception of save_processed_id leaving check_new_vacancies.
MarkAndAdvance(t, o) ==
    /\ store' = save_processed_id(store, current_id[t], o)
    /\ faults' = IF o = "ok" THEN faults ELSE faults + 1
    /\ IF o = "raised"
       THEN /\ pc' = [pc EXCEPT ![t] = "raised"]
            /\ lastAbsent' = absent[t]
            /\ UNCHANGED current_id
       ELSE /\ pc' = [pc EXCEPT ![t] = "loop"]
            /\ current_id' = [current_id EXCEPT ![t] = @ + 1]
            /\ UNCHANGED lastAbsent

\* Lines 239, 248-250: format_vacancy_deepseek raises (request error,
\* status other than 200, malformed answer); the handler is entered.
FormatterRaises(t) ==
    /\ pc[t] = "await_format"
    /\ CanRun(t)
    /\ pc' = [pc EXCEPT ![t] = "format_error"]
    /\ UNCHANGED <<store, locals, scans, faults, observed, lastAbsent, delivered>>

\* SkipAfterError without the save of line 251.
SkipAfterError_nosave(t, kinds) ==
    /\ pc[t] = "format_error"
    /\ CanRun(t)
    /\ pc' = [pc EXCEPT ![t] = "loop"]
    /\ current_id' = [current_id EXCEPT ![t] = @ + 1]
    /\ UNCHANGED <<store, missing_count, new_count, formatted, topic_id, scans,
                   faults, observed, lastAbsent, delivered>>

\* Lines 251-253: the id of the failed formatting is saved and passed over.
SkipAfterError(t, kinds) ==
    /\ pc[t] = "format_error"
    /\ CanRun(t)
    /\ \E o \in SaveOutcomes(kinds) : MarkAndAdvance(t, o)
    /\ UNCHANGED <<missing_count, new_count, formatted, topic_id, scans,
                   observed, delivered>>

\* Lines 239-242: the formatter returns a text that is empty once stripped.
FormatterReturnsEmpty(t) ==
    /\ pc[t] = "await_format"
    /\ CanRun(t)
    /\ \E c \in Contents : Strip(c) = <<>>
    /\ pc' = [pc EXCEPT ![t] = "format_empty"]
    /\ UNCHANGED <<store, locals, scans, faults, observed, lastAbsent, delivered>>

\* SkipEmpty without the save of line 243.
SkipEmpty_nosave(t, kinds) ==
    /\ pc[t] = "format_empty"
    /\ CanRun(t)
    /\ pc' = [pc EXCEPT ![t] = "loop"]
    /\ current_id' = [current_id EXCEPT ![t] = @ + 1]
    /\ UNCHANGED <<store, missing_count, new_count, formatted, topic_id, scans,
                   faults, observed, lastAbsent, delivered>>

\* Lines 243-245: the id of the empty result is saved and passed over.
SkipEmpty(t, kinds) ==
    /\ pc[t] = "format_empty"
    /\ CanRun(t)
    /\ \E o \in SaveOutcomes(kinds) : MarkAndAdvance(t, o)
    /\ UNCHANGED <<missing_count, new_count, formatted, topic_id, scans,
                   observed, delivered>>

\* Lines 239-258: the formatter returns a text for which choose_topic
\* returns 0.
FormatterReturnsUnrouted(t) ==
    /\ pc[t] = "await_format"
    /\ CanRun(t)
    /\ \E c \in Contents :
        /\ Strip(c) # <<>>
        /\ choose_topic(Strip(c)) = 0
    /\ pc' = [pc EXCEPT ![t] = "no_topic"]
    /\ UNCHANGED <<store, locals, scans, faults, observed, lastAbsent, delivered>>

\* SkipUnrouted without the save of line 259.
SkipUnrouted_nosave(t, kinds) ==
    /\ pc[t] = "no_topic"
    /\ CanRun(t)
    /\ pc' = [pc EXCEPT ![t] = "loop"]
    /\ current_id' = [current_id EXCEPT ![t] = @ + 1]
    /\ UNCHANGED <<store, missing_count, new_count, formatted, topic_id, scans,
                   faults, observed, lastAbsent, delivered>>

\* Lines 259-261: the id without a topic is saved and passed over.
SkipUnrouted(t, kinds) ==
    /\ pc[t] = "no_topic"
    /\ CanRun(t)
    /\ \E o \in SaveOutcomes(kinds) : MarkAndAdvance(t, o)
    /\ UNCHANGED <<missing_count, new_count, formatted, topic_id, scans,
                   observed, delivered>>

\* FormatterReturnsRouted without the test of topic_id (line 256): any text
\* that is not empty is sent, to the topic choose_topic returned.
FormatterReturnsRouted_untested(t) ==
    /\ pc[t] = "await_format"
    /\ CanRun(t)
    /\ \E c \in Contents :
        /\ Strip(c) # <<>>
        /\ formatted' = [formatted EXCEPT ![t] = Strip(c)]
        /\ topic_id' = [topic_id EXCEPT ![t] = choose_topic(Strip(c))]
    /\ sent_ids' = [sent_ids EXCEPT ![t] = @ \cup {current_id[t]}]
    /\ pc' = [pc EXCEPT ![t] = "await_send"]
    /\ UNCHANGED <<store, current_id, missing_count, new_count, scans,
                   faults, start_id, store0, absent, fmt_ids, lastAbsent,
                   delivered>>

\* Lines 239-268: the formatter returns a text with a topic; send_message is
\* called with them and awaited.
FormatterReturnsRouted(t) ==
    /\ pc[t] = "await_format"
    /\ CanRun(t)
    /\ \E c \in Contents :
        /\ Strip(c) # <<>>
        /\ choose_topic(Strip(c)) # 0
        /\ formatted' = [formatted EXCEPT ![t] = Strip(c)]
        /\ topic_id' = [topic_id EXCEPT ![t] = choose_topic(Strip(c))]
    /\ sent_ids' = [sent_ids EXCEPT ![t] = @ \cup {current_id[t]}]
    /\ pc' = [pc EXCEPT ![t] = "await_send"]
    /\ UNCHANGED <<store, current_id, missing_count, new_count, scans,
                   faults, start_id, store0, absent, fmt_ids, lastAbsent,
                   delivered>>

\* Lines 264-270: send_message returns; the message is in the topic.
SendReturns(t) ==
    /\ pc[t] = "await_send"
    /\ CanRun(t)
    /\ delivered' = [delivered EXCEPT ![current_id[t]] = @ + 1]
    /\ pc' = [pc EXCEPT ![t] = "sent"]
    /\ UNCHANGED <<store, locals, scans, faults, observed, lastAbsent>>

\* Lines 264, 271-273: send_message raises; the handler logs it.
SendRaises(t) ==
    /\ pc[t] = "await_send"
    /\ CanRun(t)
    /\ pc' = [pc EXCEPT ![t] = "send_error"]
    /\ UNCHANGED <<store, locals, scans, faults, observed, lastAbsent, delivered>>

\* RecordSent with lines 275-277 inside the try: an id whose send_message
\* raised is passed over unsaved.
RecordSent_inTry(t, kinds) ==
    /\ pc[t] \in {"sent", "send_error"}
    /\ CanRun(t)
    /\ IF pc[t] = "sent"
       THEN /\ \E o \in SaveOutcomes(kinds) : MarkAndAdvance(t, o)
            /\ new_count' = [new_count EXCEPT ![t] = @ + 1]
       ELSE /\ pc' = [pc EXCEPT ![t] = "loop"]
            /\ current_id' = [current_id EXCEPT ![t] = @ + 1]
            /\ UNCHANGED <<store, faults, lastAbsent, new_count>>
    /\ formatted' = [formatted EXCEPT ![t] = <<>>]
    /\ topic_id' = [topic_id EXCEPT ![t] = 0]
    /\ UNCHANGED <<missing_count, scans, observed, delivered>>

\* Lines 275-277: after send_message, returned or raised, the id is saved
\* and counted.
RecordSent(t, kinds) ==
    /\ pc[t] \in {"sent", "send_error"}
    /\ CanRun(t)
    /\ \E o \in SaveOutcomes(kinds) :
        /\ MarkAndAdvance(t, o)
        /\ new_count' = [new_count EXCEPT ![t] = IF o = "raised" THEN @ ELSE @ + 1]
    /\ formatted' = [formatted EXCEPT ![t] = <<>>]
    /\ topic_id' = [topic_id EXCEPT ![t] = 0]
    /\ UNCHANGED <<missing_count, scans, observed, delivered>>

\* The locals of check_new_vacancies go with its frame.
Forget(t) ==
    /\ current_id' = [current_id EXCEPT ![t] = 0]
    /\ missing_count' = [missing_count EXCEPT ![t] = 0]
    /\ new_count' = [new_count EXCEPT ![t] = 0]
    /\ formatted' = [formatted EXCEPT ![t] = <<>>]
    /\ topic_id' = [topic_id EXCEPT ![t] = 0]
    /\ start_id' = [start_id EXCEPT ![t] = 0]
    /\ store0' = [store0 EXCEPT ![t] = {}]
    /\ absent' = [absent EXCEPT ![t] = {}]
    /\ fmt_ids' = [fmt_ids EXCEPT ![t] = {}]
    /\ sent_ids' = [sent_ids EXCEPT ![t] = {}]

\* check_new_vacancies returns.  scheduled_scrape (line 299) ends with it;
\* scrape_command (line 293) calls reply_text and awaits it.
Return(t) ==
    /\ pc[t] = "done"
    /\ CanRun(t)
    /\ pc' = [pc EXCEPT ![t] = IF t = "manual" THEN "await_reply" ELSE "idle"]
    /\ Forget(t)
    /\ UNCHANGED <<store, scans, faults, lastAbsent, delivered>>

\* The exception leaves check_new_vacancies and its caller (neither
\* scheduled_scrape nor scrape_command catches it): the task ends.
Unwind(t) ==
    /\ pc[t] = "raised"
    /\ CanRun(t)
    /\ pc' = [pc EXCEPT ![t] = "idle"]
    /\ Forget(t)
    /\ UNCHANGED <<store, scans, faults, lastAbsent, delivered>>

\* Line 293: reply_text returns or raises; scrape_command ends.
ReplyReturns(t) ==
    /\ pc[t] = "await_reply"
    /\ CanRun(t)
    /\ pc' = [pc EXCEPT ![t] = "idle"]
    /\ UNCHANGED <<store, locals, scans, faults, observed, lastAbsent, delivered>>

(***************************************************************************)
(* Specifications.                                                         *)
(***************************************************************************)

\* The program as main() sets it up: both triggers, sqlite may fail.
Next ==
    \E t \in Tasks :
        \/ StartScan(t, AllFaults)
        \/ ExitLoop(t)
        \/ FetchMissing(t)
        \/ FetchFound(t)
        \/ FormatterRaises(t)
        \/ SkipAfterError(t, AllFaults)
        \/ FormatterReturnsEmpty(t)
        \/ SkipEmpty(t, AllFaults)
        \/ FormatterReturnsUnrouted(t)
        \/ SkipUnrouted(t, AllFaults)
        \/ FormatterReturnsRouted(t)
        \/ SendReturns(t)
        \/ SendRaises(t)
        \/ RecordSent(t, AllFaults)
        \/ Return(t)
        \/ Unwind(t)
        \/ ReplyReturns(t)

Spec == Init /\ [][Next]_vars

\* Both triggers, with sqlite working.
NextOK ==
    \E t \in Tasks :
        \/ StartScan(t, NoFaults)
        \/ ExitLoop(t)
        \/ FetchMissing(t)
        \/ FetchFound(t)
        \/ FormatterRaises(t)
        \/ SkipAfterError(t, NoFaults)
        \/ FormatterReturnsEmpty(t)
        \/ SkipEmpty(t, NoFaults)
        \/ FormatterReturnsUnrouted(t)
        \/ SkipUnrouted(t, NoFaults)
        \/ FormatterReturnsRouted(t)
        \/ SendReturns(t)
        \/ SendRaises(t)
        \/ RecordSent(t, NoFaults)
        \/ Return(t)
        \/ ReplyReturns(t)

SpecOK == Init /\ [][NextOK]_vars

\* Scans that never overlap; sqlite may fail.
NextSeq ==
    \E t \in Tasks :
        \/ StartScanAlone(t, AllFaults)
        \/ ExitLoop(t)
        \/ FetchMissing(t)
        \/ FetchFound(t)
        \/ FormatterRaises(t)
        \/ SkipAfterError(t, AllFaults)
        \/ FormatterReturnsEmpty(t)
        \/ SkipEmpty(t, AllFaults)
        \/ FormatterReturnsUnrouted(t)
        \/ SkipUnrouted(t, AllFaults)
        \/ FormatterReturnsRouted(t)
        \/ SendReturns(t)
        \/ SendRaises(t)
        \/ RecordSent(t, AllFaults)
        \/ Return(t)
        \/ Unwind(t)
        \/ ReplyReturns(t)

SpecSeq == Init /\ [][NextSeq]_vars

\* Scans that never overlap; the insert of save_processed_id may fail.
NextSeqInsert ==
    \E t \in Tasks :
        \/ StartScanAlone(t, InsertFaults)
        \/ ExitLoop(t)
        \/ FetchMissing(t)
        \/ FetchFound(t)
        \/ FormatterRaises(t)
        \/ SkipAfterError(t, InsertFaults)
        \/ FormatterReturnsEmpty(t)
        \/ SkipEmpty(t, InsertFaults)
        \/ FormatterReturnsUnrouted(t)
        \/ SkipUnrouted(t, InsertFaults)
        \/ FormatterReturnsRouted(t)
        \/ SendReturns(t)
        \/ SendRaises(t)
        \/ RecordSent(t, InsertFaults)
        \/ Return(t)
        \/ ReplyReturns(t)

SpecSeqInsert == Init /\ [][NextSeqInsert]_vars

\* The steps of check_new_vacancies after its first line, up to the end of
\* its loop.
ScanSteps(t, kinds) ==
    \/ ExitLoop(t)
    \/ FetchMissing(t)
    \/ FetchFound(t)
    \/ FormatterRaises(t)
    \/ SkipAfterError(t, kinds)
    \/ FormatterReturnsEmpty(t)
    \/ SkipEmpty(t, kinds)
    \/ FormatterReturnsUnrouted(t)
    \/ SkipUnrouted(t, kinds)
    \/ FormatterReturnsRouted(t)
    \/ SendReturns(t)
    \/ SendRaises(t)
    \/ RecordSent(t, kinds)

\* Scans that never overlap, with sqlite working.
NextSeqOK ==
    \E t \in Tasks :
        \/ StartScanAlone(t, NoFaults)
        \/ ExitLoop(t)
        \/ FetchMissing(t)
        \/ FetchFound(t)
        \/ FormatterRaises(t)
        \/ SkipAfterError(t, NoFaults)
        \/ FormatterReturnsEmpty(t)
        \/ SkipEmpty(t, NoFaults)
        \/ FormatterReturnsUnrouted(t)
        \/ SkipUnrouted(t, NoFaults)
        \/ FormatterReturnsRouted(t)
        \/ SendReturns(t)
        \/ SendRaises(t)
        \/ RecordSent(t, NoFaults)
        \/ Return(t)
        \/ ReplyReturns(t)

SpecSeqOK == Init /\ [][NextSeqOK]_vars

\* SpecSeqOK with every call returning: parse_vacancy_page (timeout=10,
\* line 101) and the formatter request (timeout=60, line 179) return or
\* raise, send_message is awaited on the running event loop, and the
\* synchronous stretches between them run to their end.
SpecSeqOKFair ==
    /\ SpecSeqOK
    /\ \A t \in Tasks : WF_vars(ScanSteps(t, NoFaults))


(***************************************************************************)
(* choose_topic on its own: formatted_vacancy is any of ClassifyTexts and   *)
(* line 255 applies choose_topic to it.                                    *)
(***************************************************************************)
InitClassify ==
    /\ \E t \in Tasks : \E text \in ClassifyTexts :
          /\ pc = [u \in Tasks |-> IF u = t THEN "await_format" ELSE "idle"]
          /\ formatted = [u \in Tasks |-> IF u = t THEN text ELSE <<>>]
    /\ store = {}
    /\ current_id = [t \in Tasks |-> 0]
    /\ missing_count = [t \in Tasks |-> 0]
    /\ new_count = [t \in Tasks |-> 0]
    /\ topic_id = [t \in Tasks |-> 0]
    /\ scans = 0
    /\ faults = 0
    /\ start_id = [t \in Tasks |-> 0]
    /\ store0 = [t \in Tasks |-> {}]
    /\ absent = [t \in Tasks |-> {}]
    /\ fmt_ids = [t \in Tasks |-> {}]
    /\ sent_ids = [t \in Tasks |-> {}]
    /\ lastAbsent = {}
    /\ delivered = [i \in PageIds |-> 0]

\* Lines 255-256: topic_id = choose_topic(formatted_vacancy), and the test of
\* its result.
Classify(t) ==
    /\ pc[t] = "await_format"
    /\ topic_id' = [topic_id EXCEPT ![t] = choose_topic(formatted[t])]
    /\ pc' = [pc EXCEPT ![t] = IF topic_id'[t] = 0 THEN "no_topic"
                                                   ELSE "await_send"]
    /\ UNCHANGED <<store, current_id, missing_count, new_count, formatted,
                   scans, faults, observed, lastAbsent, delivered>>

NextClassify == \E t \in Tasks : Classify(t)

SpecClassify == InitClassify /\ [][NextClassify]_vars

(***************************************************************************)
(* save_processed_id on its own: a caller holds any of NumSaved ids and     *)
(* calls save_processed_id with it, any number of times, sqlite working.   *)
(* faults counts the calls that reported an error.                         *)
(***************************************************************************)
SavedIds == (FallbackId + 1)..(FallbackId + NumSaved)

\* The caller takes an id in hand.
HoldId(t, vacancy_id) ==
    /\ current_id[t] # vacancy_id
    /\ current_id' = [current_id EXCEPT ![t] = vacancy_id]
    /\ UNCHANGED <<store, pc, missing_count, new_count, formatted, topic_id,
                   scans, faults, observed, lastAbsent, delivered>>

\* Lines 81-93 for the id in hand: the INSERT, and the except branch that
\* reports its failure.
SaveCall(t) ==
    /\ current_id[t] \in SavedIds
    /\ LET outcome == insert_or_ignore(store, current_id[t])
       IN  /\ store' = save_processed_id(store, current_id[t], outcome)
           /\ faults' = IF outcome = "ok" THEN faults ELSE faults + 1
    /\ faults < MaxFaults + 1
    /\ UNCHANGED <<pc, locals, scans, observed, lastAbsent, delivered>>

NextStore ==
    \E t \in Tasks :
        \/ \E x \in SavedIds : HoldId(t, x)
        \/ SaveCall(t)

SpecStore == Init /\ [][NextStore]_vars

(***************************************************************************)
(* Properties.                                                             *)
(***************************************************************************)

\* A scan is in flight from the call of check_new_vacancies to its end.
InFlight(t) == pc[t] \notin {"idle", "await_reply"}

\* The ids the current scan of t has passed to parse_vacancy_page.
Fetched(t) == absent[t] \cup fmt_ids[t]

\* C1 (at-most-once delivery, sequential scans): send_message is never
\* called for an id that is in the table; with C8 (the table never loses an
\* id) no scan calls it for an id once that id has been saved.
C1_NoDeliveryOfProcessed ==
    [][\A t \in Tasks :
          (pc[t] = "await_format" /\ pc'[t] = "await_send") =>
              current_id[t] \notin store]_vars

\* A later scan calls send_message while the table holds ids of an earlier one.
C1_Witness ==
    \E t \in Tasks :
        /\ pc[t] = "await_send"
        /\ store0[t] # {}
        /\ store0[t] \subseteq store

\* C2 (single flight): at most one scan is in flight at any time.
C2_SingleFlight == Cardinality({t \in Tasks : InFlight(t)}) <= 1

\* C3 (interleaved triggers): no id is delivered more than once.
C3_NoDuplicateDelivery == ~ \E i \in PageIds : delivered[i] > 1

\* C4 (retry of absent ids): a scan that runs to its end has fetched every
\* id the scan before it fetched as not present (lastAbsent, until the step
\* that ends this scan replaces it).
C4_AbsentRefetched ==
    [][\A t \in Tasks :
          (pc[t] = "loop" /\ pc'[t] = "done") => lastAbsent \subseteq Fetched(t)]_vars

\* The first max_missing ids of the scan of t were all fetched as not present.
AllMissed(t) ==
    /\ InFlight(t)
    /\ pc[t] # "raised"
    /\ start_id[t]..(start_id[t] + max_missing - 1) \subseteq absent[t]

\* C5 (miss-streak termination): when the first 10 ids of a scan are all
\* not present, the scan has made exactly those 10 fetches, no formatter
\* call and no delivery, the table is as it was when the scan started, and
\* the scan can only end: no further fetch is possible.
C5_MissStreakTermination ==
    \A t \in Tasks :
        AllMissed(t) =>
            /\ Fetched(t) = start_id[t]..(start_id[t] + max_missing - 1)
            /\ current_id[t] = start_id[t] + max_missing
            /\ fmt_ids[t] = {}
            /\ sent_ids[t] = {}
            /\ new_count[t] = 0
            /\ store = store0[t]
            /\ pc[t] \in {"loop", "done"}
            /\ pc[t] = "loop" =>
                  /\ ENABLED ExitLoop(t)
                  /\ ~ ENABLED FetchMissing(t)
                  /\ ~ ENABLED FetchFound(t)

\* A scan has ended after 10 misses from its first id on.
C5_Witness == \E t \in Tasks : pc[t] = "done" /\ AllMissed(t)

\* C6 (first scan): from an empty table the first id fetched is the fallback
\* id S; and once S has been sent and the scan has moved on, S is in the
\* table and is its highest id.
C6_FirstFetchIsFallback ==
    \A t \in Tasks :
        (InFlight(t) /\ pc[t] # "raised" /\ store0[t] = {}) =>
            /\ Fetched(t) # {} => SetMin(Fetched(t)) = FallbackId
            /\ (FallbackId \in sent_ids[t] /\ current_id[t] = FallbackId + 1) =>
                  (FallbackId \in store /\ get_last_processed_id(store) = FallbackId)

\* C7 (failed persistence): a delivery is never followed by a second
\* delivery of the same id, whatever save_processed_id did.
C7_NoRedeliveryAfterFailedSave ==
    [][\A i \in PageIds : delivered'[i] > delivered[i] => delivered[i] = 0]_vars

\* C8 (monotonic progress): no step removes an id from the table or lowers
\* what get_last_processed_id returns; so its value after a scan is at least
\* its value after the scan before.
C8_MonotonicProgress ==
    [][/\ store \subseteq store'
       /\ get_last_processed_id(store') >= get_last_processed_id(store)]_vars

\* A second scan has ended with more in the table than it started with.
C8_Witness ==
    \E t \in Tasks :
        /\ pc[t] = "done"
        /\ store0[t] # {}
        /\ get_last_processed_id(store) > get_last_processed_id(store0[t])

\* C9 (storage errors are absorbed): no scan ends by an exception; a scan
\* ends only when the miss streak reaches its bound.
C9_StorageErrorAbsorbed ==
    \A t \in Tasks :
        /\ pc[t] # "raised"
        /\ pc[t] = "done" => missing_count[t] = max_missing

\* C10 (formatter failure): once the formatter has raised for an id, the
\* next step of the scan puts the id in the table, calls no send_message and
\* delivers nothing, and leaves the scan at the loop with the next id; the
\* formatter is never called for an id in the table, and the table never
\* loses an id.
C10_FormatterFailure ==
    [][\A t \in Tasks :
          /\ pc[t] = "format_error" =>
                /\ current_id[t] \in store'
                /\ sent_ids'[t] = sent_ids[t]
                /\ delivered' = delivered
                /\ pc'[t] = "loop"
                /\ current_id'[t] = current_id[t] + 1
          /\ (pc[t] = "loop" /\ pc'[t] = "await_format") =>
                current_id[t] \notin store
          /\ store \subseteq store']_vars

\* The formatter has just raised for a present id, in a scan that started
\* with ids of an earlier scan in the table.
C10_Witness ==
    \E t \in Tasks :
        /\ pc[t] = "format_error"
        /\ current_id[t] \in PageIds
        /\ current_id[t] \notin sent_ids[t]
        /\ store0[t] # {}

\* C11 (empty formatter result): once the formatter has returned an empty
\* text for an id, the next step of the scan puts the id in the table, calls
\* no send_message and delivers nothing, and leaves the scan at the loop
\* with the next id; send_message is never called for an id in the table,
\* and the table never loses an id.
C11_EmptyFormatterResult ==
    [][\A t \in Tasks :
          /\ pc[t] = "format_empty" =>
                /\ current_id[t] \in store'
                /\ current_id[t] \notin sent_ids'[t]
                /\ delivered' = delivered
                /\ pc'[t] = "loop"
                /\ current_id'[t] = current_id[t] + 1
          /\ pc'[t] = "await_send" => current_id'[t] \notin store
          /\ store \subseteq store']_vars

\* The formatter has just returned an empty text for the present id
\* FallbackId + 2, the second id of the scan.
C11_Witness ==
    \E t \in Tasks :
        /\ pc[t] = "format_empty"
        /\ current_id[t] = FallbackId + 2
        /\ current_id[t] \in fmt_ids[t]

\* C12 (delivery failure): once send_message has raised for an id, the next
\* step of the scan puts the id in the table and leaves the scan at the loop
\* with the next id, with nothing delivered; no scan calls send_message for
\* an id in the table, and the table never loses an id.
C12_DeliveryFailure ==
    [][\A t \in Tasks :
          /\ pc[t] = "send_error" =>
                /\ current_id[t] \in store'
                /\ delivered' = delivered
                /\ pc'[t] = "loop"
                /\ current_id'[t] = current_id[t] + 1
          /\ (pc[t] # "await_send" /\ pc'[t] = "await_send") =>
                current_id'[t] \notin store'
          /\ \A i \in store : i \in store']_vars

\* send_message has just raised for an id that was never delivered.
C12_Witness ==
    \E t \in Tasks :
        /\ pc[t] = "send_error"
        /\ current_id[t] \in sent_ids[t]
        /\ delivered[current_id[t]] = 0

\* C13 (classification miss): once choose_topic has returned 0 for the
\* formatted text of an id, the next step of the scan puts the id in the
\* table, calls no send_message and delivers nothing, and leaves the scan at
\* the loop with the next id.
C13_ClassificationMiss ==
    [][\A t \in Tasks :
          pc[t] = "no_topic" =>
              /\ current_id[t] \in store'
              /\ current_id[t] \notin sent_ids'[t]
              /\ sent_ids'[t] = sent_ids[t]
              /\ delivered' = delivered
              /\ pc'[t] = "loop"
              /\ current_id'[t] = current_id[t] + 1]_vars

\* choose_topic has just returned 0 for the text of a present id.
C13_Witness ==
    \E t \in Tasks :
        /\ pc[t] = "no_topic"
        /\ current_id[t] \in fmt_ids[t]
        /\ current_id[t] \notin store

\* C14 (classification precedence): the topic choose_topic returns for a
\* text is that of the first keyword, in the order of TOPIC_ID_MAPPING, that
\* occurs in the lower-cased first line of the text, and 0 exactly when no
\* keyword occurs in it; a text that begins with "Chief Officer on Bulk
\* Carrier" gets topic 36.
C14_FirstKeywordWins ==
    \A t \in Tasks :
        pc[t] \in {"no_topic", "await_send"} =>
            LET text == formatted[t]
                line == Lower(Strip(FirstLine(Strip(text))))
                Occurs(k) == Contains(line, TOPIC_ID_MAPPING[k][1])
                keys == 1..Len(TOPIC_ID_MAPPING)
                n == Len(ChiefOfficerOnBulkCarrier)
            IN  /\ topic_id[t] = 0 <=> \A k \in keys : ~Occurs(k)
                /\ topic_id[t] # 0 =>
                      \E k \in keys :
                          /\ Occurs(k)
                          /\ \A j \in 1..(k - 1) : ~Occurs(j)
                          /\ topic_id[t] = TOPIC_ID_MAPPING[k][2]
                /\ (Len(text) >= n /\ SubSeq(text, 1, n) = ChiefOfficerOnBulkCarrier)
                      => topic_id[t] = 36

\* choose_topic has been applied to a text whose first line holds "Master"
\* before "Chief Officer", and to one with a second line.
C14_Witness ==
    \E t \in Tasks :
        /\ pc[t] = "await_send"
        /\ topic_id[t] = 36
        /\ formatted[t] = TitleCase(TOPIC_ID_MAPPING[2][1]) \o <<" ">>
                            \o TitleCase(TOPIC_ID_MAPPING[1][1]) \o <<" ">>

\* C15 (idempotent save): a call of save_processed_id with an id that is
\* already in the table leaves the table as it is and reports no error (when
\* every id a caller holds is in the table, no step changes the table or
\* the error count), and a call with any id leaves in the table the ids it
\* held and the id of the call.
C15_SaveTwice ==
    [][/\ (\A t \in Tasks : current_id[t] \in store \cup {0}) =>
              (store' = store /\ faults' = faults)
       /\ \/ store' = store
          \/ \E t \in Tasks : /\ current_id[t] \in SavedIds
                              /\ store' = store \cup {current_id[t]}]_vars

\* The caller still holds an id that a call has put in the table, next to
\* an id saved before: the state a second call with the same id starts in.
C15_Witness ==
    \E t \in Tasks :
        /\ current_id[t] \in store
        /\ store # {current_id[t]}
        /\ faults = 0

\* C16 (acknowledged command): a /scrape command ends only after it has
\* called reply_text, and it calls reply_text only once the scan it started
\* has left its loop; this holds whatever failed during the scan, a sqlite
\* call included.
C16_CommandAcknowledged ==
    [][/\ (pc["manual"] # "idle" /\ pc'["manual"] = "idle") =>
              pc["manual"] = "await_reply"
       /\ (pc["manual"] # "await_reply" /\ pc'["manual"] = "await_reply") =>
              pc["manual"] = "done"]_vars

\* C17 (only fetched ids are saved): an id enters the table only in a step
\* of a scan that holds it as its current id and whose fetch of it returned
\* text (the id was passed to the formatter and is not among the ids the scan
\* found absent); the step that finds an id absent leaves the table as it is;
\* so every id in the table is one the site serves a page for.
C17_StoredIdsWereFetched ==
    [][/\ \A x \in store' \ store :
              \E t \in Tasks : /\ current_id[t] = x
                               /\ x \in fmt_ids[t]
                               /\ x \notin absent[t]
       /\ \A t \in Tasks :
              (absent'[t] \ absent[t] # {}) => store' = store
       /\ store' \subseteq PageIds]_vars

\* A scan has found its first id absent and has saved its second id.
C17_Witness ==
    \E t \in Tasks :
        /\ start_id[t] \in absent[t]
        /\ start_id[t] + 1 \in store \ store0[t]
        /\ store \cap absent[t] = {}

\* C18 (scan order and miss counter): in every state of a scan the ids
\* fetched so far are the interval from the id after the cursor up to the
\* current id, each fetched with one result; missing_count is within
\* 0..max_missing and is the number of ids found absent since the last id
\* found present (or since the start).  Every fetch is of the current id,
\* which was not fetched before, and happens below max_missing; the loop is
\* left exactly at max_missing.
C18_ScanOrderAndMissCounter ==
    /\ [](\A t \in Tasks :
            pc[t] \notin {"idle", "await_reply", "raised"} =>
              LET atLoop == pc[t] \in {"loop", "done"}
                  last == IF atLoop THEN current_id[t] - 1 ELSE current_id[t]
                  k == missing_count[t]
              IN  /\ start_id[t] = get_last_processed_id(store0[t]) + 1
                  /\ Fetched(t) = start_id[t]..last
                  /\ absent[t] \cap fmt_ids[t] = {}
                  /\ k \in 0..max_missing
                  /\ (last - k + 1)..last \subseteq absent[t]
                  /\ last - k >= start_id[t] => (last - k) \in fmt_ids[t]
                  /\ ~atLoop => k = 0
                  /\ pc[t] = "done" => k = max_missing)
    /\ [][\A t \in Tasks :
            /\ (pc[t] = "loop" /\ (\/ pc'[t] = "await_format"
                                   \/ missing_count'[t] = missing_count[t] + 1)) =>
                  /\ missing_count[t] < max_missing
                  /\ current_id[t] \notin Fetched(t)
                  /\ absent'[t] \cup fmt_ids'[t] = Fetched(t) \cup {current_id[t]}
                  /\ pc'[t] = "await_format" => missing_count'[t] = 0
            /\ (pc[t] = "loop" /\ pc'[t] # "loop") =>
                  (pc'[t] = "done" <=> missing_count[t] = max_missing)]_vars

\* A scan has left its loop after an absent id, a present id and
\* max_missing absent ids.
C18_Witness ==
    \E t \in Tasks :
        /\ pc[t] = "done"
        /\ start_id[t] \in absent[t]
        /\ start_id[t] + 1 \in fmt_ids[t]
        /\ current_id[t] = start_id[t] + 2 + max_missing

\* C19 (termination): the site serves finitely many pages above the cursor
\* and every call returns; then every scan that has entered its loop leaves
\* it, and when it does the ids it fetched are exactly those from its first
\* id up to max_missing ids beyond the last id it found present (beyond the
\* cursor when it found none), these max_missing ids all absent.
C19_ScanTerminates ==
    /\ \A t \in Tasks : (pc[t] = "loop") ~> (pc[t] = "done")
    /\ [](\A t \in Tasks :
            pc[t] = "done" =>
              LET lastFound == IF fmt_ids[t] = {} THEN start_id[t] - 1
                               ELSE SetMax(fmt_ids[t])
              IN  /\ Fetched(t) = start_id[t]..(lastFound + max_missing)
                  /\ (lastFound + 1)..(lastFound + max_missing) \subseteq absent[t]
                  /\ Cardinality(Fetched(t)) =
                        (lastFound - start_id[t] + 1) + max_missing)

\* A scan has left its loop after a present id that followed an absent one.
C19_Witness ==
    \E t \in Tasks :
        /\ pc[t] = "done"
        /\ fmt_ids[t] = {start_id[t] + 1}
        /\ Cardinality(absent[t]) = max_missing + 1

\* C20 (guarded delivery): send_message is called only by a scan that has
\* just got the text of its current id from the formatter, the fetch of that
\* id having returned text in this scan; the text sent is not empty, its
\* topic is the value choose_topic gives for it and a value of
\* TOPIC_ID_MAPPING (not 0), and the scan has not called send_message for
\* the id before.  A message is delivered only by such a call, one per call.
C20_GuardedDelivery ==
    [][/\ \A t \in Tasks :
            (pc[t] # "await_send" /\ pc'[t] = "await_send") =>
                /\ pc[t] = "await_format"
                /\ current_id'[t] = current_id[t]
                /\ current_id[t] \in fmt_ids[t]
                /\ current_id[t] \notin absent[t]
                /\ current_id[t] \notin sent_ids[t]
                /\ formatted'[t] # <<>>
                /\ topic_id'[t] = choose_topic(formatted'[t])
                /\ topic_id'[t] \in TopicIds
                /\ topic_id'[t] # 0
       /\ \A i \in PageIds :
            delivered'[i] # delivered[i] =>
                /\ delivered'[i] = delivered[i] + 1
                /\ \E t \in Tasks : /\ pc[t] = "await_send"
                                    /\ pc'[t] = "sent"
                                    /\ current_id[t] = i]_vars

\* A scan has called send_message for the second id it fetched, after it
\* called it for the first.
C20_Witness ==
    \E t \in Tasks :
        /\ pc[t] = "await_send"
        /\ sent_ids[t] = {start_id[t], start_id[t] + 1}
        /\ topic_id[t] \in TopicIds
        /\ delivered[start_id[t]] = 1

====
